---- MODULE Spec2Model ----
(***************************************************************************)
(* Model of docs/scripts/gen-api-docs.js: the hash-based cache that        *)
(* decides which OpenAPI specs are regenerated, the sequential and the     *)
(* parallel generation runner, and the file system they act on.            *)
(*                                                                         *)
(* One behaviour is a sequence of runs of the script.  Between and during *)
(* the runs the environment edits the spec files, empties or fills the    *)
(* output directories and (between runs) damages the cache file.           *)
(***************************************************************************)
EXTENDS Naturals, Sequences, FiniteSets, TLC

\* ------------------------------------------------------------------ bounds
MaxRuns == 2
MaxEdits == 1

\* --------------------------------------------------------- static configuration
\* Object.keys(SPECS), in insertion order.
SpecOrder == <<"stable", "experimental", "deprecated">>

SPECS == {"stable", "experimental", "deprecated"}

\* Property names every JavaScript object inherits from Object.prototype;
\* "constructor" stands for all of them (toString, hasOwnProperty, ...).
InheritedNames == {"constructor"}

\* Every name a child process or a cache key can carry.
Names == SPECS \cup InheritedNames

\* Command-line targets: "all", the configured names, an inherited property
\* name, and a name that is no property of SPECS at all.
Targets == {"all", "bogus"} \cup Names

\* File contents of a spec file; "missing" is the absent file.
Contents == {"c1", "c2"}

FileStates == Contents \cup {"missing"}

\* SPECS[name] as the script evaluates it: a property lookup that also finds
\* inherited properties, used for its truthiness.
SpecLookup(name) == name \in SPECS \/ name \in InheritedNames

\* crypto.createHash('sha256').update(content).digest('hex'), collision free
\* on the contents of the model.
sha256(content) == IF content = "c1" THEN "h1" ELSE "h2"

\* One entry of the cache; hash is "undefined" when the entry holds no hash
\* and "null" when hashFile found no file.
NoEntry == [present |-> FALSE, hash |-> "undefined", generatedAt |-> 0]

EmptyEntries == [n \in Names |-> NoEntry]

\* The cache file: absent, not parsable, the JSON text null, or a JSON object.
AbsentFile == [kind |-> "absent", entries |-> EmptyEntries]

CorruptFile == [kind |-> "corrupt", entries |-> EmptyEntries]

NullFile == [kind |-> "null", entries |-> EmptyEntries]

VARIABLES
    specFile,        \* spec name -> content of SPECS[name].specPath
    outputDir,       \* spec name -> the output directory exists and is non-empty
    cacheFile,       \* the content of CACHE_FILE
    pc,              \* position of main()
    target,          \* run request
    force,
    parallel,
    cache,           \* main's in-memory cache object
    specsToGenerate, \* main's list of pending specs
    idx,             \* loop index of the decision loop and of the sequential loop
    success,         \* main's success flag
    child,           \* name -> state of the generator subprocess of this run
    consumed,        \* name -> the spec file content that subprocess read
    generatedFrom,   \* spec name -> the content its output pages were made from
    promise,         \* name -> state of the promise generateDocs returned
    exitCode,        \* exit code of the last finished run (read when pc = "exited")
    runs,            \* number of runs started; also the clock of generatedAt
    edits,           \* number of environment steps taken
    started,         \* name -> subprocesses started for it in this run
    exitedOk,        \* names whose subprocess exited with code 0 in this run
    failedGen,       \* names whose subprocess failed in this run
    loaded,          \* the cache file as it was when this run read it
    writes,          \* saveCache calls of this run
    sinceOk,         \* specs unchanged since their last successful generation
    bpc,             \* position of build-docs.sh
    args,            \* "$@" of build-docs.sh
    pos,             \* index of the argument the for loop is at
    SKIP_API_DOCS,   \* environment variables ("" when unset)
    FORCE_API_DOCS,
    FORCE,           \* the script's shell variables
    PARALLEL,
    SKIP_API,
    SERVE,
    nodeModules,     \* docs/node_modules is a directory
    status,          \* exit status of build-docs.sh (read when bpc = "exit")
    stepsRun,        \* the commands the script ran, with their exit codes
    genArgv,         \* the argument lists gen-api-docs.js was invoked with
    reported         \* "Build complete!" was printed

vars == <<specFile, outputDir, cacheFile, pc, target, force, parallel, cache,
          specsToGenerate, idx, success, child, consumed, generatedFrom,
          promise, exitCode,
          runs, edits, started, exitedOk, failedGen, loaded, writes, sinceOk,
          bpc, args, pos, SKIP_API_DOCS, FORCE_API_DOCS, FORCE, PARALLEL,
          SKIP_API, SERVE, nodeModules, status, stepsRun, genArgv, reported>>

\* The state of gen-api-docs.js and of the files it works on.
genVars == <<specFile, outputDir, cacheFile, pc, target, force, parallel, cache,
             specsToGenerate, idx, success, child, consumed, generatedFrom,
             promise, exitCode,
             runs, edits, started, exitedOk, failedGen, loaded, writes, sinceOk>>

\* The state of build-docs.sh.
inputVars == <<args, SKIP_API_DOCS, FORCE_API_DOCS>>

flagVars == <<FORCE, PARALLEL, SKIP_API, SERVE>>

buildVars == <<bpc, args, pos, SKIP_API_DOCS, FORCE_API_DOCS, FORCE, PARALLEL,
               SKIP_API, SERVE, nodeModules, status, stepsRun, genArgv,
               reported>>

fsVars == <<specFile, outputDir, generatedFrom, cacheFile>>

argVars == <<target, force, parallel>>

\* ------------------------------------------------------------------ helpers
\* hashFile(SPECS[name].specPath): null when the path is undefined or the
\* file does not exist.
hashFile(name) ==
    IF name \notin SPECS THEN "null"
    ELSE IF specFile[name] = "missing" THEN "null"
    ELSE sha256(specFile[name])

\* The spec file as the generator of name n reads it when it starts; a name
\* that is no configured spec has no input file.
InputOf(n) == IF n \in SPECS THEN specFile[n] ELSE "missing"

\* JSON.parse of the cache file, {} when absent or not parsable.
loadCache ==
    IF cacheFile.kind \in {"absent", "corrupt"}
    THEN [kind |-> "object", entries |-> EmptyEntries]
    ELSE cacheFile

\* JSON.stringify(cache) written to CACHE_FILE.
saveCache(c) ==
    IF c.kind = "null" THEN NullFile
    ELSE [kind |-> "object",
          entries |-> [n \in Names |->
                          IF c.entries[n].present THEN c.entries[n] ELSE NoEntry]]

\* cache[specName]?.hash
cachedHash(specName, c) == c.entries[specName].hash

outputExists(specName) == specName \in SPECS /\ outputDir[specName]

\* needsRegeneration, as the branch it leaves through.
needsRegenerationBranch(specName, c, f) ==
    IF f THEN "force"
    ELSE IF ~SpecLookup(specName) THEN "unknown"
    ELSE IF hashFile(specName) = "null" THEN "notfound"
    ELSE IF c.kind = "null" THEN "throw"
    ELSE IF ~outputExists(specName) THEN "output"
    ELSE IF hashFile(specName) # cachedHash(specName, c) THEN "changed"
    ELSE "skip"

needsRegeneration(specName, c, f) ==
    needsRegenerationBranch(specName, c, f) # "skip"

ToCheckEvery(t) == SpecOrder

\* The specs main() asks the decider about.
ToCheck(t) == IF t = "all" THEN SpecOrder ELSE <<t>>

\* cache[specName] = { hash: hashFile(...), generatedAt: now }
CacheEntry(specName) ==
    [present |-> TRUE, hash |-> hashFile(specName), generatedAt |-> runs]

CacheSet(c, specName) ==
    [c EXCEPT !.entries[specName] = CacheEntry(specName)]

\* process exit code after saveCache.
ExitCodeOf(ok) == IF ok THEN 0 ELSE 1

Range(seq) == {seq[i] : i \in 1..Len(seq)}

\* --------------------------------------------------------------------- Init
GenInit ==
    /\ specFile = [s \in SPECS |-> "c1"]
    /\ outputDir = [s \in SPECS |-> FALSE]
    /\ cacheFile = AbsentFile
    /\ pc = "idle"
    /\ target = "all"
    /\ force = FALSE
    /\ parallel = FALSE
    /\ cache = [kind |-> "object", entries |-> EmptyEntries]
    /\ specsToGenerate = <<>>
    /\ idx = 1
    /\ success = TRUE
    /\ child = [n \in Names |-> "none"]
    /\ consumed = [n \in Names |-> "none"]
    /\ generatedFrom = [s \in SPECS |-> "none"]
    /\ promise = [n \in Names |-> "none"]
    /\ exitCode = 0
    /\ runs = 0
    /\ edits = 0
    /\ started = [n \in Names |-> 0]
    /\ exitedOk = {}
    /\ failedGen = {}
    /\ loaded = AbsentFile
    /\ writes = 0
    /\ sinceOk = {}

\* build-docs.sh before it has parsed anything.
ScriptVars ==
    /\ pos = 1
    /\ FORCE = ""
    /\ PARALLEL = ""
    /\ SKIP_API = ""
    /\ SERVE = ""
    /\ status = 0
    /\ stepsRun = <<>>
    /\ genArgv = <<>>
    /\ reported = FALSE

\* gen-api-docs.js is run by hand; build-docs.sh is not running.
Init ==
    /\ GenInit
    /\ ScriptVars
    /\ bpc = "none"
    /\ args = <<>>
    /\ SKIP_API_DOCS = ""
    /\ FORCE_API_DOCS = ""
    /\ nodeModules = TRUE

\* ----------------------------------------------------------------- main()
runVars == <<pc, cache, specsToGenerate, idx, success, child, consumed, promise,
             exitCode, started, exitedOk, failedGen, loaded, writes>>

\* process.exit(code), or main() returning.
Exit(code) ==
    /\ pc' = "exited"
    /\ exitCode' = code

\* Lines 168-178: parse the arguments and load the cache.
Start(t, f, p) ==
    /\ pc = "idle"
    /\ runs < MaxRuns
    /\ runs' = runs + 1
    /\ target' = t
    /\ force' = f
    /\ parallel' = p
    /\ cache' = loadCache
    /\ loaded' = cacheFile
    /\ specsToGenerate' = <<>>
    /\ idx' = 1
    /\ success' = TRUE
    /\ child' = [n \in Names |-> "none"]
    /\ consumed' = [n \in Names |-> "none"]
    /\ promise' = [n \in Names |-> "none"]
    /\ started' = [n \in Names |-> 0]
    /\ exitedOk' = {}
    /\ failedGen' = {}
    /\ writes' = 0
    /\ pc' = "check"
    /\ UNCHANGED <<exitCode, edits, sinceOk>>
    /\ UNCHANGED fsVars
    /\ UNCHANGED buildVars

\* Lines 193-197: the target is neither 'all' nor a property of SPECS.
UnknownTarget ==
    /\ pc = "check"
    /\ target # "all"
    /\ ~SpecLookup(target)
    /\ Exit(1)
    /\ UNCHANGED <<cache, specsToGenerate, idx, success, child, consumed, promise,
                   started, exitedOk, failedGen, loaded, writes>>
    /\ UNCHANGED <<runs, edits, sinceOk>>
    /\ UNCHANGED fsVars
    /\ UNCHANGED argVars
    /\ UNCHANGED buildVars

\* Lines 184-192: one call of needsRegeneration.  A TypeError it throws
\* rejects main(), and main().catch exits with code 1.
CheckSpec ==
    /\ pc = "check"
    /\ target = "all" \/ SpecLookup(target)
    /\ idx <= Len(ToCheck(target))
    /\ LET s == ToCheck(target)[idx]
           b == needsRegenerationBranch(s, cache, force)
       IN  /\ IF b = "throw"
              THEN /\ Exit(1)
                   /\ UNCHANGED <<specsToGenerate, idx>>
              ELSE /\ specsToGenerate' =
                        IF needsRegeneration(s, cache, force)
                        THEN Append(specsToGenerate, s)
                        ELSE specsToGenerate
                   /\ idx' = idx + 1
                   /\ UNCHANGED <<pc, exitCode>>
    /\ UNCHANGED <<cache, success, child, consumed, promise, started, exitedOk,
                   failedGen, loaded, writes>>
    /\ UNCHANGED <<runs, edits, sinceOk>>
    /\ UNCHANGED fsVars
    /\ UNCHANGED argVars
    /\ UNCHANGED buildVars

Checked ==
    /\ pc = "check"
    /\ target = "all" \/ SpecLookup(target)
    /\ idx > Len(ToCheck(target))

\* Lines 201-205: nothing to generate, main() returns.
NothingToGenerate ==
    /\ Checked
    /\ Len(specsToGenerate) = 0
    /\ Exit(0)
    /\ UNCHANGED <<cache, specsToGenerate, idx, success, child, consumed, promise,
                   started, exitedOk, failedGen, loaded, writes>>
    /\ UNCHANGED <<runs, edits, sinceOk>>
    /\ UNCHANGED fsVars
    /\ UNCHANGED argVars
    /\ UNCHANGED buildVars

\* Line 213: the branch main() takes.
UseParallel(p, n) == p /\ n > 1

\* Lines 213-217: specsToGenerate.map(generateDocs) spawns every child.
StartParallel ==
    /\ Checked
    /\ Len(specsToGenerate) > 0
    /\ UseParallel(parallel, Len(specsToGenerate))
    /\ child' = [n \in Names |->
                    IF n \in Range(specsToGenerate) THEN "running" ELSE child[n]]
    /\ consumed' = [n \in Names |->
                    IF n \in Range(specsToGenerate) THEN InputOf(n) ELSE consumed[n]]
    /\ promise' = [n \in Names |->
                    IF n \in Range(specsToGenerate) THEN "pending" ELSE promise[n]]
    /\ started' = [n \in Names |->
                    IF n \in Range(specsToGenerate) THEN started[n] + 1 ELSE started[n]]
    /\ pc' = "await"
    /\ UNCHANGED <<cache, specsToGenerate, idx, success, exitCode, exitedOk, failedGen, loaded, writes>>
    /\ UNCHANGED <<runs, edits, sinceOk>>
    /\ UNCHANGED fsVars
    /\ UNCHANGED argVars
    /\ UNCHANGED buildVars

\* Lines 230-232: enter the sequential loop.
StartSequential ==
    /\ Checked
    /\ Len(specsToGenerate) > 0
    /\ ~UseParallel(parallel, Len(specsToGenerate))
    /\ pc' = "seq"
    /\ idx' = 1
    /\ UNCHANGED <<cache, specsToGenerate, success, child, consumed, promise, exitCode,
                   started, exitedOk, failedGen, loaded, writes>>
    /\ UNCHANGED <<runs, edits, sinceOk>>
    /\ UNCHANGED fsVars
    /\ UNCHANGED argVars
    /\ UNCHANGED buildVars

\* ------------------------------------------------- generator subprocesses
\* The exit codes of a subprocess: 0, and 1 for every non-zero code.
ChildCodes == {0, 1}

\* What a subprocess that exits with `code` leaves on disk: with code 0 the
\* pages of the spec are in its output directory.
Generated(n, code) ==
    /\ UNCHANGED consumed
    /\ IF code = 0
       THEN /\ sinceOk' = sinceOk \cup ({n} \cap SPECS)
            /\ outputDir' = [s \in SPECS |-> outputDir[s] \/ s = n]
            /\ generatedFrom' = [s \in SPECS |->
                                    IF s = n THEN consumed[n] ELSE generatedFrom[s]]
       ELSE UNCHANGED <<sinceOk, outputDir, generatedFrom>>

\* A subprocess of this run exits and the script sees its exit code.
ChildExited(n, code) ==
    /\ child' = [child EXCEPT ![n] = "closed"]
    /\ Generated(n, code)
    /\ IF code = 0
       THEN /\ exitedOk' = exitedOk \cup {n}
            /\ UNCHANGED failedGen
       ELSE /\ failedGen' = failedGen \cup {n}
            /\ UNCHANGED exitedOk

\* The sequential loop's reaction to generateDocsSync(specName): the cache
\* after it, and the success flag after it.
SeqCacheAlways(c, specName, ok) == CacheSet(c, specName)

SeqCache(c, specName, ok) == IF ok THEN CacheSet(c, specName) ELSE c

SeqSuccessKept(flag, ok) == flag

SeqSuccess(flag, ok) == flag /\ ok

\* Lines 146-154: generateDocsSync starts the subprocess and blocks.
SeqSpawn ==
    /\ pc = "seq"
    /\ idx <= Len(specsToGenerate)
    /\ child[specsToGenerate[idx]] = "none"
    /\ child' = [child EXCEPT ![specsToGenerate[idx]] = "running"]
    /\ consumed' = [consumed EXCEPT
                        ![specsToGenerate[idx]] = InputOf(specsToGenerate[idx])]
    /\ started' = [started EXCEPT ![specsToGenerate[idx]] = @ + 1]
    /\ UNCHANGED <<pc, cache, specsToGenerate, idx, success, promise,
                   exitCode, exitedOk, failedGen, loaded, writes>>
    /\ UNCHANGED <<runs, edits, sinceOk>>
    /\ UNCHANGED fsVars
    /\ UNCHANGED argVars
    /\ UNCHANGED buildVars

SeqFinishSaving(code) ==
    /\ pc = "seq"
    /\ idx <= Len(specsToGenerate)
    /\ child[specsToGenerate[idx]] = "running"
    /\ ChildExited(specsToGenerate[idx], code)
    /\ cache' = SeqCache(cache, specsToGenerate[idx], code = 0)
    /\ cacheFile' = saveCache(cache')
    /\ writes' = writes + 1
    /\ success' = SeqSuccess(success, code = 0)
    /\ idx' = idx + 1
    /\ UNCHANGED <<pc, exitCode>>
    /\ UNCHANGED <<specsToGenerate, promise, started, loaded>>
    /\ UNCHANGED <<runs, edits, specFile>>
    /\ UNCHANGED argVars
    /\ UNCHANGED buildVars

\* Lines 155-161 and 233-240: execSync returns or throws, and the loop body
\* updates the cache or clears the success flag.  Assigning a property of a
\* null cache throws a TypeError, which ends main() through main().catch.
SeqFinish(code) ==
    /\ pc = "seq"
    /\ idx <= Len(specsToGenerate)
    /\ child[specsToGenerate[idx]] = "running"
    /\ ChildExited(specsToGenerate[idx], code)
    /\ IF code = 0 /\ cache.kind = "null"
       THEN /\ Exit(1)
            /\ UNCHANGED <<cache, success, idx>>
       ELSE /\ cache' = SeqCache(cache, specsToGenerate[idx], code = 0)
            /\ success' = SeqSuccess(success, code = 0)
            /\ idx' = idx + 1
            /\ UNCHANGED <<pc, exitCode>>
    /\ UNCHANGED <<specsToGenerate, promise, started, loaded, writes>>
    /\ UNCHANGED <<runs, edits, specFile, cacheFile>>
    /\ UNCHANGED argVars
    /\ UNCHANGED buildVars

\* Line 242: the sequential loop is over.
SeqDone ==
    /\ pc = "seq"
    /\ idx > Len(specsToGenerate)
    /\ pc' = "save"
    /\ UNCHANGED <<cache, specsToGenerate, idx, success, child, consumed, promise,
                   exitCode, started, exitedOk, failedGen, loaded, writes>>
    /\ UNCHANGED <<runs, edits, sinceOk>>
    /\ UNCHANGED fsVars
    /\ UNCHANGED argVars
    /\ UNCHANGED buildVars

\* Lines 126-135: the 'close' event of a child of generateDocs.  It settles
\* the promise unless an 'error' event settled it before.
ChildClose(n, code) ==
    /\ pc = "await"
    /\ child[n] = "running"
    /\ ChildExited(n, code)
    /\ promise' = [promise EXCEPT ![n] =
                      IF @ # "pending" THEN @
                      ELSE IF code = 0 THEN "resolved" ELSE "rejected"]
    /\ UNCHANGED <<pc, cache, specsToGenerate, idx, success, exitCode,
                   started, loaded, writes>>
    /\ UNCHANGED <<runs, edits, specFile, cacheFile>>
    /\ UNCHANGED argVars
    /\ UNCHANGED buildVars

\* Lines 137-139: the 'error' event of a child that could not be spawned.
ChildError(n) ==
    /\ pc = "await"
    /\ child[n] = "running"
    /\ promise[n] = "pending"
    /\ child' = [child EXCEPT ![n] = "errored"]
    /\ UNCHANGED consumed
    /\ promise' = [promise EXCEPT ![n] = "rejected"]
    /\ failedGen' = failedGen \cup {n}
    /\ UNCHANGED <<pc, cache, specsToGenerate, idx, success, exitCode,
                   started, exitedOk, loaded, writes>>
    /\ UNCHANGED <<runs, edits, sinceOk>>
    /\ UNCHANGED fsVars
    /\ UNCHANGED argVars
    /\ UNCHANGED buildVars

\* Lines 126-135 after 137-139: 'close' follows 'error'; the promise is
\* settled already and the second reject is ignored.
CloseAfterError(n) ==
    /\ child[n] = "errored"
    /\ child' = [child EXCEPT ![n] = "closed"]
    /\ UNCHANGED consumed
    /\ UNCHANGED <<pc, cache, specsToGenerate, idx, success, promise, exitCode,
                   started, exitedOk, failedGen, loaded, writes>>
    /\ UNCHANGED <<runs, edits, sinceOk>>
    /\ UNCHANGED fsVars
    /\ UNCHANGED argVars
    /\ UNCHANGED buildVars

\* A child that process.exit left running ends; nobody listens any more.
OrphanExit(n, code) ==
    /\ pc = "exited"
    /\ child[n] = "running"
    /\ child' = [child EXCEPT ![n] = "closed"]
    /\ Generated(n, code)
    /\ UNCHANGED <<pc, cache, specsToGenerate, idx, success, promise, exitCode,
                   started, exitedOk, failedGen, loaded, writes>>
    /\ UNCHANGED <<runs, edits, specFile, cacheFile>>
    /\ UNCHANGED argVars
    /\ UNCHANGED buildVars

\* The cache after the loop of lines 218-225 over the results.
RECURSIVE CacheSetAll(_, _)
CacheSetAll(c, names) ==
    IF names = <<>> THEN c
    ELSE CacheSetAll(CacheSet(c, Head(names)), Tail(names))

\* Promise.all(...) is fulfilled when every promise is, and rejected as soon
\* as one is.
AllFulfilled(names) == \A n \in Range(names) : promise[n] = "resolved"

AnyRejectedNever(names) == FALSE

AnyRejected(names) == \E n \in Range(names) : promise[n] = "rejected"

\* Lines 217-225: every promise resolved; the loop writes the entries.  The
\* TypeError of a null cache is caught by the catch of line 226.
AwaitFulfilled ==
    /\ pc = "await"
    /\ AllFulfilled(specsToGenerate)
    /\ IF cache.kind = "null"
       THEN /\ success' = FALSE
            /\ UNCHANGED cache
       ELSE /\ cache' = CacheSetAll(cache, specsToGenerate)
            /\ UNCHANGED success
    /\ pc' = "save"
    /\ UNCHANGED <<specsToGenerate, idx, child, consumed, promise, exitCode, started, exitedOk, failedGen, loaded, writes>>
    /\ UNCHANGED <<runs, edits, sinceOk>>
    /\ UNCHANGED fsVars
    /\ UNCHANGED argVars
    /\ UNCHANGED buildVars

\* Lines 226-229: Promise.all rejected; no result is looked at.
AwaitRejected ==
    /\ pc = "await"
    /\ AnyRejected(specsToGenerate)
    /\ success' = FALSE
    /\ pc' = "save"
    /\ UNCHANGED <<cache, specsToGenerate, idx, child, consumed, promise, exitCode,
                   started, exitedOk, failedGen, loaded, writes>>
    /\ UNCHANGED <<runs, edits, sinceOk>>
    /\ UNCHANGED fsVars
    /\ UNCHANGED argVars
    /\ UNCHANGED buildVars

\* Lines 244-252: saveCache, then exit 1 unless success.
Save ==
    /\ pc = "save"
    /\ cacheFile' = saveCache(cache)
    /\ writes' = writes + 1
    /\ Exit(ExitCodeOf(success))
    /\ UNCHANGED <<cache, specsToGenerate, idx, success, child, consumed, promise,
                   started, exitedOk, failedGen, loaded>>
    /\ UNCHANGED <<runs, edits, sinceOk, specFile, outputDir, generatedFrom>>
    /\ UNCHANGED argVars
    /\ UNCHANGED buildVars

\* The process is gone: nothing of the run is left but the files, and the
\* script can be invoked again.
ProcessEnd ==
    /\ pc = "exited"
    /\ pc' = "idle"
    /\ target' = "all"
    /\ force' = FALSE
    /\ parallel' = FALSE
    /\ cache' = [kind |-> "object", entries |-> EmptyEntries]
    /\ specsToGenerate' = <<>>
    /\ idx' = 1
    /\ success' = TRUE
    /\ child' = [n \in Names |-> "none"]
    /\ consumed' = [n \in Names |-> "none"]
    /\ promise' = [n \in Names |-> "none"]
    /\ started' = [n \in Names |-> 0]
    /\ exitedOk' = {}
    /\ failedGen' = {}
    /\ loaded' = AbsentFile
    /\ writes' = 0
    /\ exitCode' = 0
    /\ UNCHANGED <<runs, edits, sinceOk>>
    /\ UNCHANGED fsVars
    /\ UNCHANGED buildVars

\* -------------------------------------------------------------- environment
\* The files change between runs and at any point of a run; a change after
\* the exit is the same change made once the process is gone.
EnvMayAct == pc # "exited"

\* Somebody edits, creates or removes a spec file.
EditSpec(s, c) ==
    /\ edits < MaxEdits
    /\ EnvMayAct
    /\ specFile[s] # c
    /\ specFile' = [specFile EXCEPT ![s] = c]
    /\ sinceOk' = sinceOk \ {s}
    /\ edits' = edits + 1
    /\ UNCHANGED <<outputDir, generatedFrom, cacheFile, runs>>
    /\ UNCHANGED runVars
    /\ UNCHANGED argVars
    /\ UNCHANGED buildVars

\* Somebody empties or removes an output directory.
ClearOutput(s) ==
    /\ edits < MaxEdits
    /\ EnvMayAct
    /\ outputDir[s]
    /\ outputDir' = [outputDir EXCEPT ![s] = FALSE]
    /\ generatedFrom' = [generatedFrom EXCEPT ![s] = "none"]
    /\ edits' = edits + 1
    /\ UNCHANGED <<specFile, cacheFile, runs, sinceOk>>
    /\ UNCHANGED runVars
    /\ UNCHANGED argVars
    /\ UNCHANGED buildVars

\* npm run gen-api-docs:raw fills an output directory without the cache.
RawGenerate(s) ==
    /\ edits < MaxEdits
    /\ pc = "idle"
    /\ ~outputDir[s]
    /\ outputDir' = [outputDir EXCEPT ![s] = TRUE]
    /\ generatedFrom' = [generatedFrom EXCEPT ![s] = specFile[s]]
    /\ edits' = edits + 1
    /\ UNCHANGED <<specFile, cacheFile, runs, sinceOk>>
    /\ UNCHANGED runVars
    /\ UNCHANGED argVars
    /\ UNCHANGED buildVars

\* Between two runs the cache file is removed, truncated or overwritten.
DamageCache(f) ==
    /\ edits < MaxEdits
    /\ pc = "idle"
    /\ cacheFile # f
    /\ cacheFile' = f
    /\ sinceOk' = {}
    /\ edits' = edits + 1
    /\ UNCHANGED <<specFile, outputDir, generatedFrom, runs>>
    /\ UNCHANGED runVars
    /\ UNCHANGED argVars
    /\ UNCHANGED buildVars

\* --------------------------------------------------------------------- Next
Next ==
    \/ \E t \in Targets, f \in BOOLEAN, p \in BOOLEAN : Start(t, f, p)
    \/ UnknownTarget
    \/ CheckSpec
    \/ NothingToGenerate
    \/ StartParallel
    \/ StartSequential
    \/ SeqSpawn
    \/ \E code \in ChildCodes : SeqFinish(code)
    \/ SeqDone
    \/ \E n \in Names, code \in ChildCodes : ChildClose(n, code)
    \/ \E n \in Names : ChildError(n)
    \/ \E n \in Names : CloseAfterError(n)
    \/ \E n \in Names, code \in ChildCodes : OrphanExit(n, code)
    \/ AwaitFulfilled
    \/ AwaitRejected
    \/ Save
    \/ ProcessEnd
    \/ \E s \in SPECS, c \in FileStates : EditSpec(s, c)
    \/ \E s \in SPECS : ClearOutput(s)
    \/ \E s \in SPECS : RawGenerate(s)
    \/ \E f \in {AbsentFile, CorruptFile, NullFile} : DamageCache(f)

Spec == Init /\ [][Next]_vars

\* One step of main(): the event loop runs the script whenever it can go on.
MainStep ==
    \/ UnknownTarget
    \/ CheckSpec
    \/ NothingToGenerate
    \/ StartParallel
    \/ StartSequential
    \/ SeqSpawn
    \/ SeqDone
    \/ AwaitFulfilled
    \/ AwaitRejected
    \/ Save

\* The subprocess of name n that main() waits for ends: execSync returns or
\* throws, or the child of generateDocs emits 'close' or 'error'.
ChildEnds(n) ==
    \/ \E code \in ChildCodes :
          /\ pc = "seq"
          /\ idx <= Len(specsToGenerate)
          /\ specsToGenerate[idx] = n
          /\ SeqFinish(code)
    \/ \E code \in ChildCodes : ChildClose(n, code)
    \/ ChildError(n)

\* The runs in which main() keeps running and every subprocess it started
\* eventually ends.
Fairness ==
    /\ WF_vars(MainStep)
    /\ \A n \in Names : WF_vars(ChildEnds(n))

LiveSpec == Init /\ [][Next]_vars /\ Fairness

\* ---------------------------------------------------------- build-docs.sh
\* The longest argument list of the script.
MaxArgs == 3

\* The options of lines 41-52, and a word that is none of them.
Options == {"--force", "--parallel", "--skip-api", "--serve"}

ArgWords == Options \cup {"--verbose"}

ArgLists == UNION {[1..n -> ArgWords] : n \in 0..MaxArgs}

\* Values of an environment variable: unset or empty, "1", something else.
EnvValues == {"", "1", "true"}

\* Exit codes of a command: 0, and 1 for every non-zero code.
StepCodes == {0, 1}

\* Line 27, set -e: a command that exits non-zero ends the script.
errexitOff(code) == FALSE

errexit(code) == code # 0

\* Lines 62 and 66: [[ "${VAR:-}" == "1" ]].
EnvIsSet(v) == v # ""

EnvIsOne(v) == v = "1"

\* Line 87: an unquoted variable expands to no word when it is empty.
Words(v) == IF v = "" THEN <<>> ELSE <<v>>

\* A command of the script runs and exits with `code`; on success the script
\* goes on at `next`.
RunStep(step, code, next) ==
    /\ stepsRun' = Append(stepsRun, [step |-> step, code |-> code])
    /\ IF errexit(code)
       THEN /\ bpc' = "exit"
            /\ status' = code
       ELSE /\ bpc' = next
            /\ UNCHANGED status

\* build-docs.sh starts with any arguments and environment, node_modules
\* present or not.
BuildInit ==
    /\ GenInit
    /\ ScriptVars
    /\ bpc = "parse"
    /\ args \in ArgLists
    /\ SKIP_API_DOCS \in EnvValues
    /\ FORCE_API_DOCS \in EnvValues
    /\ nodeModules \in BOOLEAN

\* Lines 39-59: one round of the for loop over the arguments.
ParseArg ==
    /\ bpc = "parse"
    /\ pos <= Len(args)
    /\ IF args[pos] \in Options
       THEN /\ FORCE' = IF args[pos] = "--force" THEN "--force" ELSE FORCE
            /\ PARALLEL' = IF args[pos] = "--parallel" THEN "--parallel"
                           ELSE PARALLEL
            /\ SKIP_API' = IF args[pos] = "--skip-api" THEN "1" ELSE SKIP_API
            /\ SERVE' = IF args[pos] = "--serve" THEN "1" ELSE SERVE
            /\ pos' = pos + 1
            /\ UNCHANGED <<bpc, status>>
       ELSE /\ bpc' = "exit"
            /\ status' = 1
            /\ UNCHANGED <<pos, FORCE, PARALLEL, SKIP_API, SERVE>>
    /\ UNCHANGED <<nodeModules, stepsRun, genArgv, reported>>
    /\ UNCHANGED inputVars
    /\ UNCHANGED genVars

\* Lines 61-75: the environment variables, cd and the banner.
CheckEnv ==
    /\ bpc = "parse"
    /\ pos > Len(args)
    /\ SKIP_API' = IF EnvIsOne(SKIP_API_DOCS) THEN "1" ELSE SKIP_API
    /\ FORCE' = IF EnvIsOne(FORCE_API_DOCS) THEN "--force" ELSE FORCE
    /\ bpc' = "install"
    /\ UNCHANGED <<pos, PARALLEL, SERVE, nodeModules, status, stepsRun,
                   genArgv, reported>>
    /\ UNCHANGED inputVars
    /\ UNCHANGED genVars

\* Lines 78-82: npm ci when there is no node_modules directory.
InstallDeps(code) ==
    /\ bpc = "install"
    /\ ~nodeModules
    /\ RunStep("install", code, "gen")
    /\ nodeModules' = (code = 0)
    /\ UNCHANGED <<pos, genArgv, reported>>
    /\ UNCHANGED flagVars
    /\ UNCHANGED inputVars
    /\ UNCHANGED genVars

\* Line 78: node_modules is there, nothing to install.
DepsInstalled ==
    /\ bpc = "install"
    /\ nodeModules
    /\ bpc' = "gen"
    /\ UNCHANGED <<pos, nodeModules, status, stepsRun, genArgv, reported>>
    /\ UNCHANGED flagVars
    /\ UNCHANGED inputVars
    /\ UNCHANGED genVars

\* Lines 85-88: node scripts/gen-api-docs.js all $FORCE $PARALLEL.
GenerateApiDocs(code) ==
    /\ bpc = "gen"
    /\ SKIP_API = ""
    /\ genArgv' = Append(genArgv, <<"all">> \o Words(FORCE) \o Words(PARALLEL))
    /\ RunStep("gen", code, "sync")
    /\ UNCHANGED <<pos, nodeModules, reported>>
    /\ UNCHANGED flagVars
    /\ UNCHANGED inputVars
    /\ UNCHANGED genVars

\* Lines 89-92: generation is skipped.
SkipApiDocs ==
    /\ bpc = "gen"
    /\ SKIP_API # ""
    /\ bpc' = "sync"
    /\ UNCHANGED <<pos, nodeModules, status, stepsRun, genArgv, reported>>
    /\ UNCHANGED flagVars
    /\ UNCHANGED inputVars
    /\ UNCHANGED genVars

\* Lines 94-97: npm run sync-files.
SyncFiles(code) ==
    /\ bpc = "sync"
    /\ RunStep("sync", code, "build")
    /\ UNCHANGED <<pos, nodeModules, genArgv, reported>>
    /\ UNCHANGED flagVars
    /\ UNCHANGED inputVars
    /\ UNCHANGED genVars

\* Lines 99-102: npm run build.
BuildSite(code) ==
    /\ bpc = "build"
    /\ RunStep("build", code, "complete")
    /\ UNCHANGED <<pos, nodeModules, genArgv, reported>>
    /\ UNCHANGED flagVars
    /\ UNCHANGED inputVars
    /\ UNCHANGED genVars

\* Lines 104-110: "Build complete!", then the script ends unless --serve.
BuildComplete ==
    /\ bpc = "complete"
    /\ reported' = TRUE
    /\ IF SERVE # ""
       THEN /\ bpc' = "serve"
            /\ UNCHANGED status
       ELSE /\ bpc' = "exit"
            /\ status' = 0
    /\ UNCHANGED <<pos, nodeModules, stepsRun, genArgv>>
    /\ UNCHANGED flagVars
    /\ UNCHANGED inputVars
    /\ UNCHANGED genVars

\* Lines 110-114: npm run serve, the last command of the script.
ServeSite(code) ==
    /\ bpc = "serve"
    /\ stepsRun' = Append(stepsRun, [step |-> "serve", code |-> code])
    /\ bpc' = "exit"
    /\ status' = code
    /\ UNCHANGED <<pos, nodeModules, genArgv, reported>>
    /\ UNCHANGED flagVars
    /\ UNCHANGED inputVars
    /\ UNCHANGED genVars

BuildNext ==
    \/ ParseArg
    \/ CheckEnv
    \/ \E code \in StepCodes : InstallDeps(code)
    \/ DepsInstalled
    \/ \E code \in StepCodes : GenerateApiDocs(code)
    \/ SkipApiDocs
    \/ \E code \in StepCodes : SyncFiles(code)
    \/ \E code \in StepCodes : BuildSite(code)
    \/ BuildComplete
    \/ \E code \in StepCodes : ServeSite(code)

BuildSpec == BuildInit /\ [][BuildNext]_vars

\* ------------------------------------------------------------------ claims
\* The target names configured specs.
KnownTarget == target \in {"all"} \cup SPECS

\* The specs a known target asks for.
Targeted == IF target = "all" THEN SPECS ELSE {target}

\* The run went through the parallel branch (generateDocs returned promises).
RanParallel == \E n \in Names : promise[n] # "none"

\* The step in which main() asks the decider about spec s.
DecisionStep(s) ==
    /\ pc = "check"
    /\ target = "all" \/ SpecLookup(target)
    /\ idx <= Len(ToCheck(target))
    /\ ToCheck(target)[idx] = s
    /\ idx' # idx \/ pc' # pc

\* C1: a spec whose input file is unchanged since its last generation that
\* exited successfully, and whose output directory is non-empty, is not
\* regenerated by a run without --force: the decider returns false for it and
\* no subprocess is started for it.  Stated for runs that read a cache file
\* holding a JSON object, no cache file, or an unparsable one.
C1_SkipsUnchanged ==
    /\ [][\A s \in SPECS :
            (/\ DecisionStep(s)
             /\ ~force
             /\ loaded.kind # "null"
             /\ s \in sinceOk
             /\ specFile[s] # "missing"
             /\ outputDir[s])
            => (pc' = "check" /\ specsToGenerate' = specsToGenerate)]_vars
    /\ [](\A s \in SPECS : started[s] > 0 => s \in Range(specsToGenerate))

\* The hash the claim compares with: the cached hash of the spec name, none
\* when nothing is cached.
ClaimedCachedHash(s, c) ==
    IF c.kind = "object" /\ c.entries[s].present THEN c.entries[s].hash
    ELSE "undefined"

\* The decision table of the claim, in its order.
ClaimedBranch(s, c, f) ==
    IF f THEN "force"
    ELSE IF specFile[s] = "missing" THEN "notfound"
    ELSE IF ~outputDir[s] THEN "output"
    ELSE IF sha256(specFile[s]) # ClaimedCachedHash(s, c) THEN "changed"
    ELSE "skip"

\* C2: for every known spec name, every cache content and every file-system
\* state needsRegeneration returns true exactly when force is set, or the
\* input file is missing, or the output directory is missing or empty, or the
\* input hash differs from the cached hash (or none is cached), checked in
\* this order; it returns false otherwise.
C2_DeciderTable ==
    \A s \in SPECS, f \in BOOLEAN :
        needsRegenerationBranch(s, cache, f) = ClaimedBranch(s, cache, f)

\* C3: a run with --force starts the generator subprocess for every targeted
\* spec, whatever the cache content, the output directories and the result of
\* earlier generations of the run.
C3_ForceGeneratesAll ==
    (pc = "exited" /\ force /\ KnownTarget)
        => \A s \in Targeted : started[s] >= 1

\* C4: for every spec whose subprocess exited with code 0 during the run, the
\* cache persisted at the end of the run holds an entry with this run's
\* timestamp and the hash of the input file computed after the generation.
C4_FreshHashPersisted ==
    (pc = "exited" /\ loaded.kind # "null")
        => \A s \in exitedOk \cap SPECS :
              /\ cacheFile.kind = "object"
              /\ cacheFile.entries[s].present
              /\ cacheFile.entries[s].generatedAt = runs
              /\ (s \in sinceOk => cacheFile.entries[s].hash = hashFile(s))

\* C5: a parallel run in which at least one generation failed and at least one
\* succeeded exits non-zero and persists updated entries for exactly the specs
\* whose generation succeeded.
C5_ParallelKeepsSuccesses ==
    (/\ pc = "exited"
     /\ RanParallel
     /\ loaded.kind # "null"
     /\ failedGen # {}
     /\ exitedOk # {})
        => /\ exitCode # 0
           /\ \A n \in Names :
                 (cacheFile.entries[n] # loaded.entries[n]) <=> n \in exitedOk

\* C6: during and after a run, the entry of a name in main's cache and in the
\* cache file differs from the entry the run loaded only if the subprocess of
\* that name exited with code 0 in this run; in particular the decider never
\* changes the cache.
C6_WrittenOnlyAfterSuccess ==
    (runs > 0 /\ pc # "idle")
        => \A n \in Names :
              (\/ cache.entries[n] # loaded.entries[n]
               \/ cacheFile.entries[n] # loaded.entries[n])
                  => n \in exitedOk

\* C6 witness: a run ended in which a spec with a cached entry failed and kept
\* that entry while another spec succeeded and got a new one.
C6_Witness ==
    /\ pc = "exited"
    /\ writes = 1
    /\ \E a \in failedGen, b \in exitedOk :
          /\ loaded.entries[a].present
          /\ cacheFile.entries[a] = loaded.entries[a]
          /\ cacheFile.entries[b] # loaded.entries[b]

\* C7 as stated: in sequential mode, once a spec's generation failed no later
\* spec of the run gets its cache entry updated.
C7_FailureStopsLaterUpdates ==
    (pc \in {"seq", "save", "exited"} /\ ~RanParallel)
        => \A i, j \in 1..Len(specsToGenerate) :
              (i < j /\ specsToGenerate[i] \in failedGen)
                  => cache.entries[specsToGenerate[j]]
                        = loaded.entries[specsToGenerate[j]]

\* The sequential run got to saveCache.
SeqSaved ==
    /\ ~RanParallel
    /\ pc = "save" \/ (pc = "exited" /\ writes = 1)

\* C7 amended: in sequential mode the specs are generated one at a time in
\* list order; a failed generation leaves that spec's entry as loaded and
\* makes the run exit non-zero, but the loop goes on: when the run gets to
\* saveCache every pending spec was attempted once, and each spec that
\* succeeded has its entry updated, also after an earlier failure.
C7_SequentialContinues ==
    /\ pc = "seq" =>
          \A k \in 1..Len(specsToGenerate) :
              child[specsToGenerate[k]] \in
                  (IF k < idx THEN {"closed"}
                   ELSE IF k = idx THEN {"none", "running"}
                   ELSE {"none"})
    /\ SeqSaved =>
          \A n \in Range(specsToGenerate) :
              /\ started[n] = 1
              /\ child[n] = "closed"
              /\ n \in exitedOk =>
                    (cache.entries[n].present /\ cache.entries[n].generatedAt = runs)
              /\ n \in failedGen => cache.entries[n] = loaded.entries[n]
    /\ (SeqSaved /\ pc = "exited") => (exitCode # 0 <=> failedGen # {})

\* C7 witness: a sequential run ended with exit code 1 in which a spec that
\* came after a failed one succeeded and has its new entry in the cache file.
C7_Witness ==
    /\ pc = "exited"
    /\ SeqSaved
    /\ exitCode = 1
    /\ \E i, j \in 1..Len(specsToGenerate) :
          /\ i < j
          /\ specsToGenerate[i] \in failedGen
          /\ specsToGenerate[j] \in exitedOk
          /\ cacheFile.entries[specsToGenerate[j]].present
          /\ cacheFile.entries[specsToGenerate[j]].generatedAt = runs

\* C8: a run exits non-zero exactly when the target is unknown or a generator
\* subprocess it started failed; it exits 0 when every started generation
\* succeeded or nothing needed generation.  Stated for runs that read a cache
\* file holding a JSON object, no cache file, or an unparsable one.
C8_ExitCode ==
    (pc = "exited" /\ loaded.kind # "null")
        => (exitCode # 0 <=> (~KnownTarget \/ failedGen # {}))

\* C9: a target that is neither 'all' nor a configured spec name makes the run
\* exit non-zero without starting a subprocess and without writing the cache.
C9_UnknownTargetFatal ==
    (pc # "idle" /\ ~KnownTarget)
        => /\ pc = "exited" => exitCode # 0
           /\ \A n \in Names : started[n] = 0
           /\ writes = 0

\* C10: a run that finds the cache file unparsable regenerates every targeted
\* spec, as with an empty cache, and persists a cache holding exactly the
\* entries of the specs that succeeded in this run.
C10_UnreadableCache ==
    (pc = "exited" /\ loaded.kind = "corrupt" /\ KnownTarget)
        => /\ \A s \in Targeted : started[s] >= 1
           /\ cacheFile.kind = "object"
           /\ \A n \in Names : cacheFile.entries[n].present <=> n \in exitedOk

\* The steps of the build script in the order the claim gives.
StepOrder == <<"install", "gen", "sync", "build", "serve">>

Rank(s) == CHOOSE i \in 1..Len(StepOrder) : StepOrder[i] = s

\* The script ran step s; it ran and exited 0; it ran and failed.
Ran(s) == \E i \in 1..Len(stepsRun) : stepsRun[i].step = s

RanOk(s) ==
    \E i \in 1..Len(stepsRun) : stepsRun[i].step = s /\ stepsRun[i].code = 0

RanFailed(s) ==
    \E i \in 1..Len(stepsRun) : stepsRun[i].step = s /\ stepsRun[i].code # 0

\* Every argument is one of the four options.
ValidArgs == \A i \in 1..Len(args) : args[i] \in Options

\* The steps run in the fixed order, each after the earlier ones exited 0; a
\* failed step ends the script with a non-zero status.
C11_Order ==
    /\ \A i, j \in 1..Len(stepsRun) :
          i < j => Rank(stepsRun[i].step) < Rank(stepsRun[j].step)
    /\ \A i \in 1..Len(stepsRun) : i < Len(stepsRun) => stepsRun[i].code = 0
    /\ (\E s \in Range(StepOrder) : RanFailed(s))
          => (bpc = "exit" /\ status # 0)
    /\ Ran("gen") => (SKIP_API = "" /\ nodeModules)
    /\ Ran("sync") => (nodeModules /\ (SKIP_API = "" => RanOk("gen")))
    /\ Ran("build") => RanOk("sync")
    /\ reported => RanOk("build")
    /\ Ran("serve") => (reported /\ SERVE # "")
    /\ (bpc = "exit" /\ status = 0)
          => (reported /\ (SERVE # "" => RanOk("serve")))

\* The install step starts only when there is no node_modules directory.
C11_InstallWhenAbsent ==
    (Len(stepsRun') > Len(stepsRun) /\ stepsRun'[Len(stepsRun')].step = "install")
        => (~nodeModules /\ stepsRun = <<>>)

\* C11: the build script runs install (only without node_modules), generation
\* (unless skipped), sync-files, build and the optional serve in this order; a
\* step starts only after every earlier step exited 0, the first failing step
\* ends the script with a non-zero status, and "Build complete" is printed
\* only after a successful build.
C11_FailFastOrder == []C11_Order /\ [][C11_InstallWhenAbsent]_vars

\* The script installed and generated, sync-files failed, and the script
\* ended non-zero without building.
C11_Witness ==
    /\ bpc = "exit"
    /\ status # 0
    /\ Len(stepsRun) = Len(<<"install", "gen", "sync">>)
    /\ RanOk("install")
    /\ RanOk("gen")
    /\ RanFailed("sync")
    /\ ~reported

\* Skipping was requested; the arguments gen-api-docs.js is to get.
SkipRequested == "--skip-api" \in Range(args) \/ SKIP_API_DOCS = "1"

ExpectedArgv ==
    <<"all">>
    \o (IF "--force" \in Range(args) \/ FORCE_API_DOCS = "1"
        THEN <<"--force">> ELSE <<>>)
    \o (IF "--parallel" \in Range(args) THEN <<"--parallel">> ELSE <<>>)

\* C12 as stated: a script run with valid arguments skips generation and
\* still runs the remaining steps when skipping was requested, and otherwise
\* has invoked gen-api-docs.js once with the expected arguments; any other
\* argument ends the script non-zero before any step.
C12_SkipExactlyWhenRequested ==
    bpc = "exit" =>
        IF ~ValidArgs THEN status # 0 /\ stepsRun = <<>>
        ELSE IF SkipRequested THEN genArgv = <<>> /\ Ran("sync")
        ELSE genArgv = <<ExpectedArgv>>

\* The script is past its decision about the generation step.
PastGen == bpc \in {"sync", "build", "complete", "serve"} \/ Ran("gen") \/ Ran("sync")

\* C12: once the script is past the install step, generation is skipped (no
\* invocation, sync-files runs next) exactly when --skip-api was passed or
\* SKIP_API_DOCS is "1"; otherwise gen-api-docs.js is invoked once with `all`,
\* --force exactly when --force was passed or FORCE_API_DOCS is "1", and
\* --parallel exactly when --parallel was passed.  It is never invoked when
\* the installation failed.  Any other argument ends the script non-zero
\* before any step.
C12_SkipDecision ==
    /\ ~ValidArgs => /\ stepsRun = <<>>
                     /\ genArgv = <<>>
                     /\ bpc \in {"parse", "exit"}
                     /\ bpc = "exit" => status # 0
    /\ Len(genArgv) <= 1
    /\ SkipRequested => genArgv = <<>>
    /\ RanFailed("install") => genArgv = <<>>
    /\ genArgv # <<>> => (genArgv = <<ExpectedArgv>> /\ Ran("gen"))
    /\ PastGen => (genArgv = <<>> <=> SkipRequested)
    /\ (bpc = "exit" /\ ValidArgs /\ SkipRequested /\ ~RanFailed("install"))
          => Ran("sync")

\* With SKIP_API_DOCS set to something other than "1", FORCE_API_DOCS "1" and
\* --parallel, the script ran gen-api-docs.js all --force --parallel and
\* ended with status 0.
C12_Witness ==
    /\ bpc = "exit"
    /\ status = 0
    /\ SKIP_API_DOCS = "true"
    /\ FORCE_API_DOCS = "1"
    /\ "--force" \notin Range(args)
    /\ genArgv = << <<"all", "--force", "--parallel">> >>

\* C13: in parallel mode the script neither writes the cache file nor exits
\* while a generator subprocess it launched is still running.
C13_BlockingJoin ==
    (RanParallel /\ pc \in {"save", "exited"})
        => \A n \in Names : child[n] # "running"

NothingPending ==
    /\ pc = "exited"
    /\ target = "all" \/ SpecLookup(target)
    /\ Len(specsToGenerate) = 0
    /\ loaded.kind # "null"

\* C15: in one run the generator is started at most once per name, and only
\* for names that are in the target and that the decider put on the list; a
\* failed spec is not started again; a single-spec run leaves the entries of
\* the other specs alone; a run with nothing pending starts nothing and
\* exits 0.
C15_NoRetriesNoExtraWork ==
    /\ \A n \in Names :
          /\ started[n] <= 1
          /\ started[n] = 1 =>
                /\ n \in Range(specsToGenerate)
                /\ (target = "all" /\ n \in SPECS) \/ n = target
          /\ (target # "all" /\ n # target /\ pc # "idle") =>
                /\ started[n] = 0
                /\ cache.entries[n] = loaded.entries[n]
                /\ cacheFile.entries[n] = loaded.entries[n]
    /\ NothingPending =>
          /\ \A n \in Names : started[n] = 0
          /\ exitCode = 0
          /\ writes = 0

\* C15 witness: a single-spec run ended in which the spec failed once, while
\* another spec had an entry that the run left alone.
C15_Witness ==
    /\ pc = "exited"
    /\ target \in SPECS
    /\ target \in failedGen
    /\ started[target] = 1
    /\ \E m \in SPECS \ {target} : loaded.entries[m].present

\* C16: the cache never vouches for stale output: whenever the persisted hash
\* of a spec equals the hash of its current input file and its output pages
\* exist, the pages were generated from exactly that content.
C16_NoStaleVouching ==
    \A s \in SPECS :
        (/\ cacheFile.kind = "object"
         /\ cacheFile.entries[s].present
         /\ specFile[s] \in Contents
         /\ cacheFile.entries[s].hash = hashFile(s)
         /\ outputDir[s])
        => generatedFrom[s] = specFile[s]

\* C17: every entry a run writes for a configured spec holds the SHA-256 of
\* an existing input file, never null.
C17_NoNullHash ==
    \A s \in SPECS :
        (cache.entries[s].present /\ cache.entries[s] # loaded.entries[s])
            => cache.entries[s].hash \in {sha256(c) : c \in Contents}

\* The run ended the regular way: it saved the cache or had nothing to do.
RanToEnd ==
    \/ writes = 1
    \/ Len(specsToGenerate) = 0 /\ exitCode = 0

\* C18: whatever the cache file holds, a run with an accepted target makes
\* its decisions, starts every pending spec and ends with an exit code that
\* is non-zero exactly when a generation failed.
C18_CacheNeverAborts ==
    (pc = "exited" /\ (target = "all" \/ SpecLookup(target)))
        => /\ RanToEnd
           /\ \A n \in Range(specsToGenerate) : started[n] = 1
           /\ exitCode # 0 <=> failedGen # {}

\* A promise of generateDocs that is settled keeps its state until the process
\* ends.
SettlesOnce ==
    \A n \in Names :
        promise[n] \in {"resolved", "rejected"}
        => (promise'[n] = promise[n] \/ (pc = "exited" /\ pc' = "idle"))

\* C19: when every subprocess a run started eventually ends, the run ends with
\* an exit code, in both modes and for every target, flag and cache state; a
\* child that emits 'error' and 'close' settles its promise once.
C19_Terminates ==
    /\ (pc \notin {"idle", "exited"}) ~> (pc = "exited" /\ exitCode \in {0, 1})
    /\ [][SettlesOnce]_vars

\* A parallel run ended with exit code 1 after the 'error' event of a child
\* whose 'close' event is still to come.
C19_Witness ==
    /\ pc = "exited"
    /\ exitCode = 1
    /\ \E n \in Names : child[n] = "errored" /\ promise[n] = "rejected"

====
